---- MODULE Spec2Model ----
(***************************************************************************)
(* rq: the command line parser (ProgramOptions::ProgramOptions) and the    *)
(* expression pipeline (main) of src/src/main.cpp.                         *)
(*                                                                         *)
(* A command line token is a sequence of one-character strings, so that    *)
(* arg.length(), arg[0] and the iteration over a bundle of short options   *)
(* are computed as the code computes them.                                 *)
(***************************************************************************)
EXTENDS Naturals, Integers, Sequences, FiniteSets, Bags, TLC

\* ---------------------------------------------------------------- bounds
\* Largest number of arguments after the program name.
MaxArgs == 3

\* ------------------------------------------------------------- constants
EXIT_SUCCESS == 0
EXIT_FAILURE == 1

\* ---------------------------------------------------------------- tokens
TokTerminator == <<"-", "-">>
TokLongHelp == <<"-", "-", "h", "e", "l", "p">>
TokLongVersion == <<"-", "-", "v", "e", "r", "s", "i", "o", "n">>
ProgramName == <<"r", "q">>

\* The tokens the arguments are drawn from: the empty token, a lone dash,
\* the terminator, both long options, clean bundles, bundles with an invalid
\* character, an unknown long option and two positional tokens.
Tokens ==
    { <<>>, <<"-">>, TokTerminator, TokLongHelp, TokLongVersion,
      <<"-", "h">>, <<"-", "v">>, <<"-", "v", "h">>,
      <<"-", "x">>, <<"-", "h", "x">>, <<"-", "-", "h">>,
      <<"a">>, <<"h">> }

\* Every argument vector: argc = 0 (no program name at all), or the program
\* name followed by at most MaxArgs tokens.
RECURSIVE SeqsUpTo(_, _)
SeqsUpTo(S, n) ==
    IF n = 0 THEN { <<>> }
    ELSE LET shorter == SeqsUpTo(S, n - 1)
         IN  shorter \cup { Append(s, t) : s \in { q \in shorter : Len(q) = n - 1 }, t \in S }

ArgVectors == { <<>> } \cup { <<ProgramName>> \o s : s \in SeqsUpTo(Tokens, MaxArgs) }

\* ----------------------------------------------------------------- state
VARIABLES
    argv,         \* the argument vector handed to main (argc = Len(argv))
    args,         \* std::vector<std::string_view> args of the constructor
    it,           \* the iterator into args, as a 1-based index
    help,         \* ProgramOptions::help
    version,      \* ProgramOptions::version
    expressions,  \* ProgramOptions::expressions
    exception,    \* what() of the std::runtime_error in flight, <<>> if none
    pc,           \* position of the control flow
    exprIdx,      \* position of the range-for over opts.expressions
    item,         \* the document binding inside the MRuby context
    evalCalls,    \* the calls of rb.eval made so far, with their results
    stdout,       \* lines written to std::cout
    stderr,       \* lines written to std::cerr
    exitCode      \* value returned by main, meaningful once pc = "exit"

vars == << argv, args, it, help, version, expressions, exception, pc,
           exprIdx, item, evalCalls, stdout, stderr, exitCode >>

optsVars == << args, it, help, version, expressions >>
evalVars == << exprIdx, item, evalCalls >>

\* --------------------------------------------------------------- helpers
\* One line of output: its text, and the number, the expression and the
\* document streamed into it (0, <<>> and <<>> when the line has none).
Line(text, n, expr, doc) == [text |-> text, n |-> n, expr |-> expr, doc |-> doc]

\* print_usage(stream)
UsageLine == Line("Usage: rq [options] [--] [EXPRESSION...]", 0, <<>>, <<>>)

\* print_version(stream)
VersionLine == Line("rq PROJECT_VERSION (mruby MRUBY_VERSION)", 0, <<>>, <<>>)

\* print_usage(std::cerr) in the place of rb.print_error().
ErrorDetail_Usage == Line("Usage: rq [options] [--] [EXPRESSION...]", 0, <<>>, <<>>)

\* rb.print_error()
ErrorDetail == Line("rb.print_error", 0, <<>>, <<>>)

\* A statement handed to rb.eval.
InitStmt == [code |-> "item = JSON.parse(STDIN.read)", expr |-> <<>>]
PrintStmt == [code |-> "puts JSON.generate(item, pretty_print: true, indent_width: 2)", expr |-> <<>>]

\* ExpressionWrapper::wrap: a fixed transformation of the expression text.
wrap(expr) == [code |-> "ExpressionWrapper::wrap", expr |-> expr]

\* args.erase(it): the vector without the element at position i.
Erase(v, i) == SubSeq(v, 1, i - 1) \o SubSeq(v, i + 1, Len(v))

\* The message naming the character right after the dash instead of *argit.
InvalidOption_AfterDash(arg, i) == << "invalid option -", arg[2] >>

\* std::string("invalid option -") + *argit
InvalidOption(arg, i) == << "invalid option -", arg[i] >>

\* The loop stepping over further dashes, so that --h counts as -h.
RECURSIVE BundleLoop_SkipsDashes(_, _, _, _)
BundleLoop_SkipsDashes(arg, i, h, v) ==
    IF i > Len(arg) THEN [help |-> h, version |-> v, thrown |-> <<>>]
    ELSE IF arg[i] = "-" THEN BundleLoop_SkipsDashes(arg, i + 1, h, v)
    ELSE IF arg[i] = "h" THEN BundleLoop_SkipsDashes(arg, i + 1, TRUE, v)
    ELSE IF arg[i] = "v" THEN BundleLoop_SkipsDashes(arg, i + 1, h, TRUE)
    ELSE [help |-> h, version |-> v, thrown |-> << "invalid option -", arg[i] >>]

\* The loop leaving the bundle after its first flag.
BundleLoop_FirstOnly(arg, i, h, v) ==
    IF i > Len(arg) THEN [help |-> h, version |-> v, thrown |-> <<>>]
    ELSE IF arg[i] = "h" THEN [help |-> TRUE, version |-> v, thrown |-> <<>>]
    ELSE IF arg[i] = "v" THEN [help |-> h, version |-> TRUE, thrown |-> <<>>]
    ELSE [help |-> h, version |-> v, thrown |-> << "invalid option -", arg[i] >>]

\* The for loop over the characters of a bundle, from position i on: the
\* flags it leaves behind and the exception it throws (<<>> if none).
RECURSIVE BundleLoop(_, _, _, _)
BundleLoop(arg, i, h, v) ==
    IF i > Len(arg) THEN [help |-> h, version |-> v, thrown |-> <<>>]
    ELSE IF arg[i] = "h" THEN BundleLoop(arg, i + 1, TRUE, v)
    ELSE IF arg[i] = "v" THEN BundleLoop(arg, i + 1, h, TRUE)
    ELSE [help |-> h, version |-> v, thrown |-> InvalidOption(arg, i)]

\* ------------------------------------------------------------------ Init
Init ==
    /\ argv \in ArgVectors
    /\ args = <<>>
    /\ it = 1
    /\ help = FALSE
    /\ version = FALSE
    /\ expressions = <<>>
    /\ exception = <<>>
    /\ pc = "ctor"
    /\ exprIdx = 1
    /\ item = <<>>
    /\ evalCalls = <<>>
    /\ stdout = <<>>
    /\ stderr = <<>>
    /\ exitCode = EXIT_SUCCESS

\* ------------------------------------------- ProgramOptions::ProgramOptions
\* argc < 1 throws; otherwise args is argv without the program name.
CtorReject ==
    /\ pc = "ctor"
    /\ Len(argv) < 1
    /\ exception' = << "Really?" >>
    /\ pc' = "catch"
    /\ UNCHANGED << argv, optsVars, evalVars, stdout, stderr, exitCode >>

CtorBegin ==
    /\ pc = "ctor"
    /\ Len(argv) >= 1
    /\ args' = Tail(argv)
    /\ it' = 1
    /\ pc' = "scan"
    /\ UNCHANGED << argv, help, version, expressions, exception, evalVars,
                    stdout, stderr, exitCode >>

\* The token under the iterator.
AtToken == pc = "scan" /\ it <= Len(args)

\* if (arg.length() == 0): ++it; continue
ScanEmpty ==
    /\ AtToken
    /\ Len(args[it]) = 0
    /\ it' = it + 1
    /\ UNCHANGED << argv, args, help, version, expressions, exception, pc,
                    evalVars, stdout, stderr, exitCode >>

\* The terminator erased without the break: the scan goes on behind it.
ScanTerminator_NoBreak ==
    /\ AtToken
    /\ args[it] = TokTerminator
    /\ args' = Erase(args, it)
    /\ UNCHANGED << argv, it, help, version, expressions, exception, pc,
                    evalVars, stdout, stderr, exitCode >>

\* if (arg == "--"): erase, break; then expressions = args
ScanTerminator ==
    /\ AtToken
    /\ args[it] = TokTerminator
    /\ args' = Erase(args, it)
    /\ expressions' = args'
    /\ pc' = "opts"
    /\ UNCHANGED << argv, it, help, version, exception, evalVars, stdout,
                    stderr, exitCode >>

\* The iterator advanced once more after the erase: the next token is skipped.
ScanLongHelp_EraseAndAdvance ==
    /\ AtToken
    /\ args[it] = TokLongHelp
    /\ help' = TRUE
    /\ args' = Erase(args, it)
    /\ it' = IF it <= Len(args') THEN it + 1 ELSE it
    /\ UNCHANGED << argv, version, expressions, exception, pc, evalVars,
                    stdout, stderr, exitCode >>

\* if (arg == "--help"): help = true; erase; continue
ScanLongHelp ==
    /\ AtToken
    /\ args[it] = TokLongHelp
    /\ help' = TRUE
    /\ args' = Erase(args, it)
    /\ UNCHANGED << argv, it, version, expressions, exception, pc, evalVars,
                    stdout, stderr, exitCode >>

\* if (arg == "--version"): version = true; erase; continue
ScanLongVersion ==
    /\ AtToken
    /\ args[it] = TokLongVersion
    /\ version' = TRUE
    /\ args' = Erase(args, it)
    /\ UNCHANGED << argv, it, help, expressions, exception, pc, evalVars,
                    stdout, stderr, exitCode >>

\* The test for a bundle without the length check: a lone dash passes.
IsBundle_LoneDash(arg) ==
    /\ Len(arg) >= 1
    /\ arg # TokTerminator
    /\ arg # TokLongHelp
    /\ arg # TokLongVersion
    /\ arg[1] = "-"

\* if (arg.length() > 1 && arg[0] == '-'): the bundle of short options
IsBundle(arg) ==
    /\ Len(arg) > 1
    /\ arg # TokTerminator
    /\ arg # TokLongHelp
    /\ arg # TokLongVersion
    /\ arg[1] = "-"

ScanBundle ==
    /\ AtToken
    /\ IsBundle(args[it])
    /\ LET r == BundleLoop(args[it], 2, help, version)
       IN  /\ help' = r.help
           /\ version' = r.version
           /\ IF r.thrown = <<>>
              THEN /\ args' = Erase(args, it)
                   /\ UNCHANGED << exception, pc >>
              ELSE /\ exception' = r.thrown
                   /\ pc' = "catch"
                   /\ UNCHANGED args
    /\ UNCHANGED << argv, it, expressions, evalVars, stdout, stderr, exitCode >>

\* otherwise: ++it
ScanPositional ==
    /\ AtToken
    /\ Len(args[it]) # 0
    /\ ~ (Len(args[it]) > 1 /\ args[it][1] = "-")
    /\ it' = it + 1
    /\ UNCHANGED << argv, args, help, version, expressions, exception, pc,
                    evalVars, stdout, stderr, exitCode >>

\* it == args.end(): expressions = args
ScanEnd ==
    /\ pc = "scan"
    /\ it > Len(args)
    /\ expressions' = args
    /\ pc' = "opts"
    /\ UNCHANGED << argv, args, it, help, version, exception, evalVars,
                    stdout, stderr, exitCode >>

\* ------------------------------------------------------------------ main
\* The version check made without the help check before it.
ShowsVersion_BeforeHelp == version

\* opts.version is looked at only when opts.help did not return.
ShowsVersion == ~ help /\ version

\* The pipeline entered although opts.version is set.
RunsPipeline_DespiteVersion == ~ help

\* MRuby rb and what follows are reached only when neither check returned.
RunsPipeline == ~ help /\ ~ version

\* The diagnostic of a failed expression written without the expression.
ExprDiagnostic_NoText(expr) == Line("rq: expression %expr failed to run:", 0, <<>>, <<>>)

\* std::cerr << "rq: expression " << expr << " failed to run:"
ExprDiagnostic(expr) == Line("rq: expression %expr failed to run:", 0, expr, <<>>)

\* A failed rb.eval of an expression that is not noticed.
ExprFailed_Ignored(ok) == FALSE

\* if (!rb.eval(wrapped_expr))
ExprFailed(ok) == ~ ok

\* The range-for stepping over every second expression.
NextExpr_Skipping(i) == i + 2

\* The range-for moves to the next element of opts.expressions.
NextExpr(i) == i + 1

\* if (opts.help) { print_usage(); return EXIT_SUCCESS; }
MainHelp ==
    /\ pc = "opts"
    /\ help
    /\ stdout' = Append(stdout, UsageLine)
    /\ exitCode' = EXIT_SUCCESS
    /\ pc' = "exit"
    /\ UNCHANGED << argv, optsVars, exception, evalVars, stderr >>

\* if (opts.version) { print_version(); return EXIT_SUCCESS; }
MainVersion ==
    /\ pc = "opts"
    /\ ShowsVersion
    /\ stdout' = Append(stdout, VersionLine)
    /\ exitCode' = EXIT_SUCCESS
    /\ pc' = "exit"
    /\ UNCHANGED << argv, optsVars, exception, evalVars, stderr >>

\* rb.eval("item = JSON.parse(STDIN.read)") and the lines around it.
ReadStdin ==
    /\ pc = "opts"
    /\ RunsPipeline
    /\ \E ok \in BOOLEAN :
          /\ evalCalls' = Append(evalCalls, [stmt |-> InitStmt, ok |-> ok])
          /\ IF ok
             THEN /\ item' = << InitStmt >>
                  /\ stdout' = stdout \o
                        << Line("reading from stdin", 0, <<>>, <<>>),
                           Line("running %n expressions", Len(expressions), <<>>, <<>>) >>
                  /\ exprIdx' = 1
                  /\ pc' = "run"
                  /\ UNCHANGED << stderr, exitCode >>
             ELSE /\ stdout' = Append(stdout, Line("reading from stdin", 0, <<>>, <<>>))
                  /\ stderr' = stderr \o
                        << Line("rq: read from stdin failed:", 0, <<>>, <<>>), ErrorDetail >>
                  /\ exitCode' = EXIT_FAILURE
                  /\ pc' = "exit"
                  /\ UNCHANGED << item, exprIdx >>
    /\ UNCHANGED << argv, optsVars, exception >>

\* Every expression evaluated in an MRuby context of its own.
RunExpression_FreshContext ==
    /\ pc = "run"
    /\ exprIdx <= Len(expressions)
    /\ LET expr == expressions[exprIdx]
           wrapped_expr == wrap(expr)
       IN  \E ok \in BOOLEAN :
              /\ stdout' = Append(stdout, Line("----> %wrapped_expr", 0, expr, <<>>))
              /\ evalCalls' = Append(evalCalls, [stmt |-> wrapped_expr, ok |-> ok])
              /\ IF ~ ExprFailed(ok)
                 THEN /\ item' = << InitStmt, wrapped_expr >>
                      /\ exprIdx' = NextExpr(exprIdx)
                      /\ UNCHANGED << stderr, exitCode, pc >>
                 ELSE /\ stderr' = stderr \o
                            << ExprDiagnostic(expr), ErrorDetail >>
                      /\ exitCode' = EXIT_FAILURE
                      /\ pc' = "exit"
                      /\ UNCHANGED << item, exprIdx >>
    /\ UNCHANGED << argv, optsVars, exception >>

\* One iteration of for (const auto& expr : opts.expressions).
RunExpression ==
    /\ pc = "run"
    /\ exprIdx <= Len(expressions)
    /\ LET expr == expressions[exprIdx]
           wrapped_expr == wrap(expr)
       IN  \E ok \in BOOLEAN :
              /\ stdout' = Append(stdout, Line("----> %wrapped_expr", 0, expr, <<>>))
              /\ evalCalls' = Append(evalCalls, [stmt |-> wrapped_expr, ok |-> ok])
              /\ IF ~ ExprFailed(ok)
                 THEN /\ item' = Append(item, wrapped_expr)
                      /\ exprIdx' = NextExpr(exprIdx)
                      /\ UNCHANGED << stderr, exitCode, pc >>
                 ELSE /\ stderr' = stderr \o
                            << ExprDiagnostic(expr), ErrorDetail >>
                      /\ exitCode' = EXIT_FAILURE
                      /\ pc' = "exit"
                      /\ UNCHANGED << item, exprIdx >>
    /\ UNCHANGED << argv, optsVars, exception >>

\* The serialization left out when there is no expression to run.
PrintItem_SkipsWhenEmpty ==
    /\ pc = "run"
    /\ exprIdx > Len(expressions)
    /\ \E ok \in BOOLEAN :
          IF Len(expressions) = 0
          THEN /\ exitCode' = EXIT_SUCCESS
               /\ UNCHANGED << evalCalls, stdout, stderr >>
          ELSE /\ evalCalls' = Append(evalCalls, [stmt |-> PrintStmt, ok |-> ok])
               /\ IF ok
                  THEN /\ stdout' = stdout \o
                             << Line("printing item", 0, <<>>, <<>>),
                                Line("JSON.generate(item)", 0, <<>>, item) >>
                       /\ exitCode' = EXIT_SUCCESS
                       /\ UNCHANGED stderr
                  ELSE /\ stdout' = Append(stdout, Line("printing item", 0, <<>>, <<>>))
                       /\ stderr' = stderr \o
                             << Line("rq: printing item failed", 0, <<>>, <<>>), ErrorDetail >>
                       /\ exitCode' = EXIT_FAILURE
    /\ pc' = "exit"
    /\ UNCHANGED << argv, optsVars, exception, exprIdx, item >>

\* rb.eval("puts JSON.generate(item, ...)") after the loop, then the return.
PrintItem ==
    /\ pc = "run"
    /\ exprIdx > Len(expressions)
    /\ \E ok \in BOOLEAN :
          /\ evalCalls' = Append(evalCalls, [stmt |-> PrintStmt, ok |-> ok])
          /\ IF ok
             THEN /\ stdout' = stdout \o
                        << Line("printing item", 0, <<>>, <<>>),
                           Line("JSON.generate(item)", 0, <<>>, item) >>
                  /\ exitCode' = EXIT_SUCCESS
                  /\ UNCHANGED stderr
             ELSE /\ stdout' = Append(stdout, Line("printing item", 0, <<>>, <<>>))
                  /\ stderr' = stderr \o
                        << Line("rq: printing item failed", 0, <<>>, <<>>), ErrorDetail >>
                  /\ exitCode' = EXIT_FAILURE
    /\ pc' = "exit"
    /\ UNCHANGED << argv, optsVars, exception, exprIdx, item >>

\* The handler returning success after printing the diagnostic.
Catch_ReturnsSuccess ==
    /\ pc = "catch"
    /\ stderr' = stderr \o
          << Line("rq: %what", 0, exception, <<>>), UsageLine >>
    /\ exitCode' = EXIT_SUCCESS
    /\ pc' = "exit"
    /\ UNCHANGED << argv, optsVars, exception, evalVars, stdout >>

\* The handler printing the usage with print_usage(), to standard output.
Catch_UsageToStdout ==
    /\ pc = "catch"
    /\ stderr' = Append(stderr, Line("rq: %what", 0, exception, <<>>))
    /\ stdout' = Append(stdout, UsageLine)
    /\ exitCode' = EXIT_FAILURE
    /\ pc' = "exit"
    /\ UNCHANGED << argv, optsVars, exception, evalVars >>

\* The handler showing the usage and succeeding when help was already set.
Catch_HonoursHelp ==
    /\ pc = "catch"
    /\ IF help
       THEN /\ stdout' = Append(stdout, UsageLine)
            /\ exitCode' = EXIT_SUCCESS
            /\ UNCHANGED stderr
       ELSE /\ stderr' = stderr \o
                  << Line("rq: %what", 0, exception, <<>>), UsageLine >>
            /\ exitCode' = EXIT_FAILURE
            /\ UNCHANGED stdout
    /\ pc' = "exit"
    /\ UNCHANGED << argv, optsVars, exception, evalVars >>

\* catch (const std::exception &ex)
Catch ==
    /\ pc = "catch"
    /\ stderr' = stderr \o
          << Line("rq: %what", 0, exception, <<>>), UsageLine >>
    /\ exitCode' = EXIT_FAILURE
    /\ pc' = "exit"
    /\ UNCHANGED << argv, optsVars, exception, evalVars, stdout >>

Next ==
    \/ CtorReject
    \/ CtorBegin
    \/ ScanEmpty
    \/ ScanTerminator
    \/ ScanLongHelp
    \/ ScanLongVersion
    \/ ScanBundle
    \/ ScanPositional
    \/ ScanEnd
    \/ MainHelp
    \/ MainVersion
    \/ ReadStdin
    \/ RunExpression
    \/ PrintItem
    \/ Catch

Spec == Init /\ [][Next]_vars

\* The program is one sequential thread: a step that can be taken is taken.
FairSpec == Spec /\ WF_vars(Next)

\* ------------------------------------------------- vocabulary of the claims
\* The tokens after the program name, as given on the command line.
Input == IF Len(argv) >= 1 THEN Tail(argv) ELSE <<>>

\* The constructor has returned or thrown.
ScanOver == Len(argv) >= 1 /\ pc \notin { "ctor", "scan" }

\* The constructor has returned a ProgramOptions.
Parsed == ScanOver /\ exception = <<>>

\* Position of the first "--" of s, Len(s) + 1 when it has none.
FirstTerminator(s) ==
    IF \E i \in 1 .. Len(s) : s[i] = TokTerminator
    THEN CHOOSE i \in 1 .. Len(s) :
            /\ s[i] = TokTerminator
            /\ \A j \in 1 .. (i - 1) : s[j] # TokTerminator
    ELSE Len(s) + 1

\* A dash followed by one or more of h and v.
IsCleanBundle(t) ==
    /\ Len(t) > 1
    /\ t[1] = "-"
    /\ \A i \in 2 .. Len(t) : t[i] \in { "h", "v" }

IsHelpFlag(t) == t = TokLongHelp \/ (IsCleanBundle(t) /\ \E i \in 2 .. Len(t) : t[i] = "h")
IsVersionFlag(t) == t = TokLongVersion \/ (IsCleanBundle(t) /\ \E i \in 2 .. Len(t) : t[i] = "v")
IsFlag(t) == IsHelpFlag(t) \/ IsVersionFlag(t)

\* Neither a flag nor anything else that starts like an option.
IsPositional(t) == ~ (Len(t) > 1 /\ t[1] = "-")

\* An option-looking token that is no flag and has a character other than
\* h and v behind its first one.
IsInvalidOption(t) ==
    /\ Len(t) > 1
    /\ t[1] = "-"
    /\ t \notin { TokLongHelp, TokLongVersion }
    /\ \E i \in 2 .. Len(t) : t[i] \notin { "h", "v" }

\* The first character of t, behind its first one, that is not h or v.
FirstInvalidChar(t) ==
    t[CHOOSE i \in 2 .. Len(t) :
         /\ t[i] \notin { "h", "v" }
         /\ \A j \in 2 .. (i - 1) : t[j] \in { "h", "v" }]

NonEmpty(t) == t # <<>>

\* How often the token t occurs in the sequence s.
Occurrences(s, t) == Cardinality({ i \in 1 .. Len(s) : s[i] = t })
NonEmptyNonFlag(t) == t # <<>> /\ ~ IsFlag(t)

\* The part of expressions that stems from the tokens before the terminator.
ScannedExpressions ==
    LET k == FirstTerminator(Input)
        behind == IF k <= Len(Input) THEN Len(Input) - k ELSE 0
    IN  SubSeq(expressions, 1, Len(expressions) - behind)

\* ------------------------------------------------------------------- C1
\* C1 (as claimed): for arguments made only of well-formed flags and
\* positional tokens parsing succeeds, the flag tokens and expressions
\* partition the non-empty input tokens, and expressions keeps their order.
C1_PartitionOfNonEmptyTokens ==
    (ScanOver /\ \A i \in 1 .. Len(Input) : IsFlag(Input[i]) \/ IsPositional(Input[i]))
    => /\ exception = <<>>
       /\ \A t \in Tokens :
             Occurrences(SelectSeq(Input, IsFlag), t) + Occurrences(expressions, t)
                = Occurrences(SelectSeq(Input, NonEmpty), t)
       /\ expressions = SelectSeq(Input, NonEmptyNonFlag)

\* ------------------------------------------------------------------- C2
\* C2: once parsing has returned for an input with a "--", the tokens behind
\* the first "--" are the tail of expressions, verbatim and in order, and
\* help and version are what the tokens before that "--" make them.
C2_TerminatorEndsOptionScan ==
    (Parsed /\ FirstTerminator(Input) <= Len(Input))
    => LET k == FirstTerminator(Input)
           before == SubSeq(Input, 1, k - 1)
           after == SubSeq(Input, k + 1, Len(Input))
       IN  /\ Len(expressions) >= Len(after)
           /\ SubSeq(expressions, Len(expressions) - Len(after) + 1, Len(expressions)) = after
           /\ \A i \in 1 .. Len(ScannedExpressions) : ScannedExpressions[i] # TokTerminator
           /\ help = (\E i \in 1 .. Len(before) : IsHelpFlag(before[i]))
           /\ version = (\E i \in 1 .. Len(before) : IsVersionFlag(before[i]))

\* A parse has returned with help unset although an option-looking token,
\* a second "--" or an empty token stands behind the first "--".
C2_Witness ==
    /\ Parsed
    /\ ~ help
    /\ \E j \in (FirstTerminator(Input) + 1) .. Len(Input) :
          /\ Input[j] \in { <<"-", "h">>, TokLongHelp, <<"-", "x">>, TokTerminator, <<>> }
          /\ expressions[Len(expressions) - (Len(Input) - j)] = Input[j]

\* ------------------------------------------------------------------- C3
\* C3 (as claimed): an empty token met before any "--" does not appear in
\* expressions, and it raises no error.
C3_EmptyTokenNotAnExpression ==
    /\ Parsed => \A i \in 1 .. Len(ScannedExpressions) : ScannedExpressions[i] # <<>>
    /\ (ScanOver /\ \A i \in 1 .. Len(Input) : Input[i] = <<>>) => exception = <<>>

\* ------------------------------------------------------------------- C4
\* C4: when a token before any "--" is an invalid option, parsing fails with
\* the error naming the first invalid character of the first such token, and
\* no options are produced: nothing is evaluated and the run fails.
C4_InvalidOptionNamesFirstBadChar ==
    (ScanOver /\ \E i \in 1 .. (FirstTerminator(Input) - 1) : IsInvalidOption(Input[i]))
    => LET i == CHOOSE i \in 1 .. (FirstTerminator(Input) - 1) :
                   /\ IsInvalidOption(Input[i])
                   /\ \A j \in 1 .. (i - 1) : ~ IsInvalidOption(Input[j])
       IN  /\ exception = << "invalid option -", FirstInvalidChar(Input[i]) >>
           /\ pc \in { "catch", "exit" }
           /\ expressions = <<>>
           /\ evalCalls = <<>>
           /\ stdout = <<>>

\* The bundle -hx has thrown, naming x and not the h before it.
C4_Witness ==
    /\ pc = "catch"
    /\ it <= Len(args)
    /\ args[it] = <<"-", "h", "x">>
    /\ exception = << "invalid option -", "x" >>

\* The statements of the rb.eval calls made so far, in call order.
Statements == [i \in 1 .. Len(evalCalls) |-> evalCalls[i].stmt]

\* Every rb.eval call made so far returned true.
AllCallsSucceeded == \A i \in 1 .. Len(evalCalls) : evalCalls[i].ok

\* The calls of a complete run over opts.expressions.
FullPipeline ==
    << InitStmt >> \o [i \in 1 .. Len(expressions) |-> wrap(expressions[i])] \o << PrintStmt >>

\* The serialized document has been written to standard output.
DocumentWritten == \E i \in 1 .. Len(stdout) : stdout[i].text = "JSON.generate(item)"

\* The input initialization or an expression has failed.
InitOrExpressionFailed ==
    \E i \in 1 .. Len(evalCalls) : ~ evalCalls[i].ok /\ evalCalls[i].stmt # PrintStmt

\* ------------------------------------------------------------------- C5
\* C5: a run whose arguments set both help and version ends with exactly the
\* usage text on standard output, without the version line, and exit code 0.
C5_HelpBeforeVersion ==
    (Parsed /\ help /\ version)
    => /\ pc \in { "opts", "exit" }
       /\ \A i \in 1 .. Len(stdout) : stdout[i] # VersionLine
       /\ pc = "exit" => (stdout = << UsageLine >> /\ exitCode = EXIT_SUCCESS)

\* The run has ended after version was set by a token before the one that
\* set help.
C5_Witness ==
    /\ pc = "exit"
    /\ exception = <<>>
    /\ help /\ version
    /\ stdout = << UsageLine >>
    /\ \E i, j \in 1 .. Len(Input) :
          i < j /\ Input[i] = TokLongVersion /\ Input[j] = <<"-", "h">>

\* ------------------------------------------------------------------- C6
\* C6: in a run whose arguments set help or version no rb.eval call is made
\* (standard input is not read, no expression runs, the document is not
\* written), whatever the expressions, and the exit code is 0.
C6_NoEvaluationOnHelpOrVersion ==
    (Parsed /\ (help \/ version))
    => /\ evalCalls = <<>>
       /\ item = <<>>
       /\ ~ DocumentWritten
       /\ pc = "exit" => exitCode = EXIT_SUCCESS

\* The run has ended on the version line although expressions were given.
C6_Witness ==
    /\ pc = "exit"
    /\ exception = <<>>
    /\ version /\ ~ help
    /\ Len(expressions) >= 1
    /\ stdout = << VersionLine >>
    /\ evalCalls = <<>>

\* ------------------------------------------------------------------- C7
\* C7: a failed rb.eval call is the last call of the run: after a failed
\* initialization no expression is evaluated, after a failed expression no
\* later one is, the document is not serialized, and nothing is retried.
C7_FirstFailureStopsTheRun ==
    \A i \in 1 .. Len(evalCalls) :
       ~ evalCalls[i].ok
       => /\ i = Len(evalCalls)
          /\ pc = "exit"
          /\ exitCode = EXIT_FAILURE
          /\ ~ DocumentWritten
          /\ \A j \in 1 .. (i - 1) : evalCalls[j].ok

\* The first of several expressions has failed and the run has ended.
C7_Witness ==
    /\ pc = "exit"
    /\ Len(expressions) >= 2
    /\ Len(evalCalls) = 2
    /\ evalCalls[1].ok
    /\ ~ evalCalls[2].ok

\* ------------------------------------------------------------------- C8
\* C8: as long as every rb.eval call succeeds, the calls made are a prefix of
\* initialize, wrap(expressions[1]), ..., wrap(expressions[n]), serialize,
\* and a run that ends that way has made exactly all of them.
C8_CallSequenceOfASuccessfulRun ==
    (Parsed /\ ~ help /\ ~ version /\ AllCallsSucceeded)
    => /\ Len(evalCalls) <= Len(FullPipeline)
       /\ Statements = SubSeq(FullPipeline, 1, Len(evalCalls))
       /\ pc = "exit" => Statements = FullPipeline
       /\ pc = "run" => Len(evalCalls) = exprIdx

\* A run over two or more expressions has ended with every call successful.
C8_Witness ==
    /\ pc = "exit"
    /\ Len(expressions) >= 2
    /\ AllCallsSucceeded
    /\ Len(evalCalls) = Len(expressions) + 2
    /\ DocumentWritten

\* ------------------------------------------------------------------- C9
\* C9 (as claimed): when the input initialization or an expression fails,
\* standard output is empty; it is written once only, by the serialize step.
C9_NoOutputBeforeSerialization ==
    /\ InitOrExpressionFailed => stdout = <<>>
    /\ evalCalls # <<>> =>
          \A i \in 1 .. Len(stdout) : i = 1 /\ stdout[i].text = "JSON.generate(item)"

\* ------------------------------------------------------------------ C10
\* C10: main returns 0 exactly when it displayed the usage or the version, or
\* when the initialization, every expression and the serialization all
\* succeeded; it returns non-zero after an argument error, a failed input
\* read, a failed expression and a failed serialization.
C10_ExitCode ==
    pc = "exit"
    => /\ exitCode = EXIT_SUCCESS
          <=> \/ Parsed /\ stdout \in { << UsageLine >>, << VersionLine >> }
              \/ Parsed /\ AllCallsSucceeded /\ Statements = FullPipeline
       /\ (exception # <<>> \/ ~ AllCallsSucceeded) => exitCode # EXIT_SUCCESS
       /\ exitCode \in { EXIT_SUCCESS, EXIT_FAILURE }

\* A run has ended in the handler of an invalid option.
C10_Witness ==
    /\ pc = "exit"
    /\ exception # <<>>
    /\ exitCode = EXIT_FAILURE
    /\ Len(stderr) = 2

\* An expression has failed: the last rb.eval call is a failed wrap(...).
ExpressionFailed ==
    /\ evalCalls # <<>>
    /\ ~ evalCalls[Len(evalCalls)].ok
    /\ evalCalls[Len(evalCalls)].stmt.code = "ExpressionWrapper::wrap"

C12_ArgumentErrorReport ==
    (pc = "exit" /\ exception # <<>>)
    => /\ stderr = << [text |-> "rq: %what", n |-> 0, expr |-> exception, doc |-> <<>>],
                      UsageLine >>
       /\ stdout = <<>>
       /\ evalCalls = <<>>
       /\ item = <<>>
       /\ exitCode # EXIT_SUCCESS

\* The run has ended on the report of the invalid option -x.
C12_Witness ==
    /\ pc = "exit"
    /\ exception = << "invalid option -", "x" >>
    /\ Len(stderr) = 2
    /\ stderr[2] = UsageLine

\* ------------------------------------------------------------------ C13
\* C13 (as claimed): on a failed input read, a failed expression and a failed
\* serialization the usage text is printed to standard error as well.
C13_UsageOnRuntimeErrors ==
    (pc = "exit" /\ ~ AllCallsSucceeded)
    => \E i \in 1 .. Len(stderr) :
          stderr[i].text = "Usage: rq [options] [--] [EXPRESSION...]"

\* C13 (amended): on a failed input read, a failed expression and a failed
\* serialization standard error holds the diagnostic prefixed with the tool
\* name and the evaluator's error detail, and no usage text; the usage text
\* is on standard error exactly after an argument error.
C13_UsageOnArgumentErrorsOnly ==
    pc = "exit"
    => /\ ~ AllCallsSucceeded
          => /\ Len(stderr) = 2
             /\ stderr[1].text \in { "rq: read from stdin failed:",
                                     "rq: expression %expr failed to run:",
                                     "rq: printing item failed" }
             /\ stderr[2].text = "rb.print_error"
       /\ (\E i \in 1 .. Len(stderr) :
              stderr[i].text = "Usage: rq [options] [--] [EXPRESSION...]")
          <=> exception # <<>>

\* The serialization has failed after a successful expression.
C13_Witness ==
    /\ pc = "exit"
    /\ Len(evalCalls) >= 3
    /\ evalCalls[Len(evalCalls)] = [stmt |-> PrintStmt, ok |-> FALSE]
    /\ stderr[1].text = "rq: printing item failed"

\* The document that was written to standard output.
WrittenDocument ==
    stdout[CHOOSE i \in 1 .. Len(stdout) : stdout[i].text = "JSON.generate(item)"].doc

\* The tokens in front of the first "--" of the input.
BeforeTerminator == SubSeq(Input, 1, FirstTerminator(Input) - 1)

\* A token that is kept as an expression and is not the empty one.
IsNonEmptyPositional(t) == t # <<>> /\ IsPositional(t)

\* How many tokens the scan has dealt with: those it stepped past and those
\* it erased.
Examined == (it - 1) + (Len(Input) - Len(args))

\* The document left by the initialization and the first n expressions.
DocumentAfter(n) == << InitStmt >> \o [j \in 1 .. n |-> wrap(expressions[j])]

\* ------------------------------------------------------------------ C14
\* C14: a run of the pipeline over zero expressions makes the calls
\* initialize and serialize and none between them, and the document it
\* writes is the document the initialization has parsed.
C14_EmptyPipelineIsIdentity ==
    (Parsed /\ RunsPipeline /\ expressions = <<>>)
    => /\ Statements = SubSeq(<< InitStmt, PrintStmt >>, 1, Len(evalCalls))
       /\ (pc = "exit" /\ AllCallsSucceeded)
          => /\ Len(evalCalls) = 2
             /\ DocumentWritten
             /\ WrittenDocument = << [code |-> "item = JSON.parse(STDIN.read)", expr |-> <<>>] >>

\* A run without expressions has written its document.
C14_Witness ==
    /\ pc = "exit"
    /\ Parsed
    /\ expressions = <<>>
    /\ Len(evalCalls) = 2
    /\ DocumentWritten

\* ------------------------------------------------------------------ C15
\* C15: when the first invalid option before any "--" begins with "--" (an
\* unknown long option such as --h), parsing fails with the error naming the
\* character behind the first dash, which is "-"; the token sets no flag and
\* does not become an expression.
C15_UnknownLongOptionNamesDash ==
    (ScanOver /\ \E i \in 1 .. Len(BeforeTerminator) : IsInvalidOption(BeforeTerminator[i]))
    => LET i == CHOOSE i \in 1 .. Len(BeforeTerminator) :
                   /\ IsInvalidOption(BeforeTerminator[i])
                   /\ \A j \in 1 .. (i - 1) : ~ IsInvalidOption(BeforeTerminator[j])
           t == BeforeTerminator[i]
       IN  (Len(t) > 2 /\ t[1] = "-" /\ t[2] = "-")
           => /\ exception = << "invalid option -", "-" >>
              /\ pc \in { "catch", "exit" }
              /\ expressions = <<>>
              /\ help = (\E j \in 1 .. (i - 1) : IsHelpFlag(BeforeTerminator[j]))
              /\ version = (\E j \in 1 .. (i - 1) : IsVersionFlag(BeforeTerminator[j]))

\* The token --h has thrown, naming the dash, and has not set help.
C15_Witness ==
    /\ pc = "catch"
    /\ it <= Len(args)
    /\ args[it] = <<"-", "-", "h">>
    /\ exception = << "invalid option -", "-" >>
    /\ ~ help

\* ------------------------------------------------------------------ C16
\* C16: the scan of a token that is a dash followed only by h and v leaves
\* help true iff it was true or the token has an h, version likewise for v,
\* and erases the token; no step ever resets help or version.
C16_BundleAppliesEveryFlag ==
    [][ /\ (AtToken /\ IsCleanBundle(args[it]))
           => /\ help' = (help \/ \E i \in 2 .. Len(args[it]) : args[it][i] = "h")
              /\ version' = (version \/ \E i \in 2 .. Len(args[it]) : args[it][i] = "v")
              /\ args' = SubSeq(args, 1, it - 1) \o SubSeq(args, it + 1, Len(args))
              /\ it' = it
              /\ pc' = "scan"
        /\ help => help'
        /\ version => version'
      ]_vars

\* The bundle -vh, scanned as the first token, has set both flags and is gone.
C16_Witness ==
    /\ pc = "scan"
    /\ Len(Input) >= 1
    /\ Input[1] = <<"-", "v", "h">>
    /\ it = 1
    /\ args = SubSeq(Input, 2, Len(Input))
    /\ help /\ version

\* ------------------------------------------------------------------ C17
\* C17: the scan of a lone "-" only steps past it: no flag, no error, the
\* token stays; and after parsing the non-empty positional tokens from before
\* the terminator, lone dashes among them, stand in expressions in their
\* original order.
C17_LoneDashIsAnExpression ==
    /\ [][ (AtToken /\ args[it] = <<"-">>)
           => /\ it' = it + 1
              /\ UNCHANGED << args, help, version, exception, pc >> ]_vars
    /\ [](Parsed => SelectSeq(ScannedExpressions, IsNonEmptyPositional)
                       = SelectSeq(BeforeTerminator, IsNonEmptyPositional))

\* A parse has returned with a lone dash between two kept tokens.
C17_Witness ==
    /\ Parsed
    /\ ~ help /\ ~ version
    /\ Len(expressions) = 3
    /\ expressions[2] = <<"-">>
    /\ expressions = Input

\* ------------------------------------------------------------------ C18
\* C18: all rb.eval calls act on the one document of the run: while the loop
\* stands before expression i+1 the document is the one left by the
\* initialization and the expressions before it, in order, and the document
\* written is the one left by the last expression.
C18_OneDocumentThreadedThrough ==
    /\ pc = "run" => /\ exprIdx \in 1 .. (Len(expressions) + 1)
                     /\ item = DocumentAfter(exprIdx - 1)
                     /\ AllCallsSucceeded
    /\ DocumentWritten => /\ WrittenDocument = DocumentAfter(Len(expressions))
                          /\ WrittenDocument = item
    /\ (pc = "exit" /\ ExpressionFailed) => item = DocumentAfter(exprIdx - 1)

\* The document written after two expressions holds both, in order.
C18_Witness ==
    /\ pc = "exit"
    /\ DocumentWritten
    /\ Len(expressions) >= 2
    /\ expressions[1] # expressions[2]
    /\ Len(WrittenDocument) = Len(expressions) + 1

\* ------------------------------------------------------------------ C19
\* C19: with an invalid option before any "--" parsing fails whatever flags
\* were set before it, standard output stays empty and the exit code is
\* non-zero; without one, no token makes parsing fail, tokens behind a "--"
\* included.
C19_InvalidOptionOverridesFlags ==
    ScanOver
    => IF \E i \in 1 .. Len(BeforeTerminator) : IsInvalidOption(BeforeTerminator[i])
       THEN /\ exception # <<>>
            /\ pc \in { "catch", "exit" }
            /\ stdout = <<>>
            /\ evalCalls = <<>>
            /\ pc = "exit" => exitCode # EXIT_SUCCESS
       ELSE exception = <<>>

\* The run has failed on -hx after -v: both flags were set by then.
C19_Witness ==
    /\ pc = "exit"
    /\ help /\ version
    /\ exception = << "invalid option -", "x" >>
    /\ exitCode = EXIT_FAILURE
    /\ stdout = <<>>

\* ------------------------------------------------------------------ C20
\* C20: every iteration of the scan that does not leave the loop deals with
\* exactly one more token; the tokens from the iterator on are the input
\* tokens not yet dealt with, so no token is examined twice and there are
\* never more iterations than input tokens; and the scan ends.
C20_ScanTerminates ==
    /\ [][ (pc = "scan" /\ pc' = "scan") => Examined' = Examined + 1 ]_vars
    /\ [](pc = "scan" => /\ Examined <= Len(Input)
                         /\ it \in 1 .. (Len(args) + 1)
                         /\ SubSeq(args, it, Len(args))
                               = SubSeq(Input, Examined + 1, Len(Input)))
    /\ <>(pc \notin { "ctor", "scan" })

\* The scan has ended after as many iterations as there are tokens, some of
\* them erased and some stepped past.
C20_Witness ==
    /\ pc = "scan"
    /\ Len(Input) >= 3
    /\ Examined = Len(Input)
    /\ it > 1
    /\ Len(args) < Len(Input)

TypeOK ==
    /\ pc \in { "ctor", "scan", "opts", "run", "catch", "exit" }
    /\ help \in BOOLEAN
    /\ version \in BOOLEAN
    /\ it \in 1 .. (Len(args) + 1)
    /\ exitCode \in { EXIT_SUCCESS, EXIT_FAILURE }
====
